---- MODULE Spec2Model ----
(***************************************************************************)
(* A model of the hnyfuck interpreter (src/src/main.rs): the word-pair     *)
(* token stream, the Brainfuck front end, the growable byte tape and the   *)
(* recursive do-while loop executor.                                       *)
(*                                                                         *)
(* Texts are sequences of items: a word-pair text is a sequence of words   *)
(* and whitespace characters, a Brainfuck source is a sequence of          *)
(* characters.  Rust indices are 0-based; cell i of the tape is            *)
(* cells[i + 1] here.                                                      *)
(***************************************************************************)
EXTENDS Integers, Sequences, FiniteSets, TLC

VARIABLES
    dialect,          \* "hny": HnyFuck::from_str (main), "bf": from_brainfuck
    src,              \* the source text handed to the front end
    overflow_checks,  \* build profile: TRUE = debug (u8 overflow panics), FALSE = release (wraps)
    pc,               \* "start", "running", "done", "panic"
    err,              \* "none", "InvalidCharacter", "InvalidToken", "Overflow"
    frames,           \* the live executors (HnyFuck values), outermost first
    stdin,            \* the bytes the process-wide standard input still holds
    output,           \* the bytes printed so far
    last,             \* the operation the last step performed
    stdin0,           \* history: the bytes standard input held at the start
    reads,            \* history: the number of Input pairs dispatched so far
    before,           \* history: the running executor's tape before the last step
    flat              \* the reference program-counter interpreter, stepped along

vars == <<dialect, src, overflow_checks, pc, err, frames, stdin, output, last,
          stdin0, reads, before, flat>>

----------------------------------------------------------------------------
(* Bounds of the model *)

MaxSrc == 3
MaxTokens == 4
MaxIn == 2
MaxTape == 4
MaxOut == 2
MaxPasses == 6
MulA == 5
MulB == 5

(* u8: the cell type of the tape *)
ByteMod == 256

----------------------------------------------------------------------------
(* The eight word pairs *)

SHIFT_LEFT == <<"Happy", "New">>
SHIFT_RIGHT == <<"New", "Year">>
INCREMENT == <<"Year", "Happy">>
DECREMENT == <<"Happy", "Year">>
OUTPUT == <<"Year", "New">>
INPUT == <<"New", "Happy">>
LOOP_START == <<"Happy", "Happy">>
LOOP_END == <<"New", "New">>

Pairs == {SHIFT_LEFT, SHIFT_RIGHT, INCREMENT, DECREMENT, OUTPUT, INPUT,
          LOOP_START, LOOP_END}

(* the opcode a pair stands for: the first constant it matches, in the order
   of the table, as a match on the constants picks it *)
pair_opcode(p) ==
    IF p = SHIFT_LEFT THEN "ShiftLeft"
    ELSE IF p = SHIFT_RIGHT THEN "ShiftRight"
    ELSE IF p = INCREMENT THEN "Increment"
    ELSE IF p = DECREMENT THEN "Decrement"
    ELSE IF p = OUTPUT THEN "Output"
    ELSE IF p = INPUT THEN "Input"
    ELSE IF p = LOOP_START THEN "LoopStart"
    ELSE IF p = LOOP_END THEN "LoopEnd"
    ELSE "Invalid"

----------------------------------------------------------------------------
(* TokenStream *)

IsWhitespace(c) == c \in {" ", "\n", "\t"}

(* a token starts at a non-whitespace item that follows whitespace or opens the text *)
IsTokenStart(text, i) ==
    /\ ~IsWhitespace(text[i])
    /\ (i = 1 \/ IsWhitespace(text[i - 1]))

RECURSIVE TokenStarts(_, _, _)
(* the token starts among items lo..hi, in text order *)
TokenStarts(text, lo, hi) ==
    IF lo > hi THEN <<>>
    ELSE IF lo = hi THEN (IF IsTokenStart(text, lo) THEN <<lo>> ELSE <<>>)
    ELSE LET mid == (lo + hi) \div 2
         IN  TokenStarts(text, lo, mid) \o TokenStarts(text, mid + 1, hi)

RECURSIVE TokenFrom(_, _)
(* the token that starts at item i: the items up to the next whitespace, joined *)
TokenFrom(text, i) ==
    IF i > Len(text) \/ IsWhitespace(text[i])
    THEN ""
    ELSE text[i] \o TokenFrom(text, i + 1)

(* str::split_whitespace, pushed token by token: the maximal runs of
   non-whitespace items in text order, each run one token *)
TokenStream_from_str(text) ==
    LET starts == TokenStarts(text, 1, Len(text))
    IN  [k \in 1..Len(starts) |-> TokenFrom(text, starts[k])]

(* TokenStream::next2 pops two tokens (one when only one is left) and yields
   a pair only when both were there *)
next2_some(stream) == Len(stream) >= 2
next2_pair(stream) == <<stream[1], stream[2]>>
next2_rest(stream) == SubSeq(stream, 3, Len(stream))

----------------------------------------------------------------------------
(* State: the tape *)

State_new == [cells |-> <<0>>, index |-> 0]

(* a shift_left that keeps the cursor on the cell it was on after the push *)
shift_left_follows_cell(s) ==
    IF s.index = 0
    THEN [cells |-> <<0>> \o s.cells, index |-> 1]
    ELSE [s EXCEPT !.index = @ - 1]

shift_left(s) ==
    IF s.index = 0
    THEN [s EXCEPT !.cells = <<0>> \o @]
    ELSE [s EXCEPT !.index = @ - 1]

(* a shiht_right that pushes a new cell wherever the cursor is *)
shiht_right_always_push(s) == [cells |-> Append(s.cells, 0), index |-> s.index + 1]

(* a shiht_right that forgets to push the new cell at the right boundary *)
shiht_right_no_push(s) == [s EXCEPT !.index = @ + 1]

shiht_right(s) ==
    IF s.index = Len(s.cells) - 1
    THEN [cells |-> Append(s.cells, 0), index |-> s.index + 1]
    ELSE [s EXCEPT !.index = @ + 1]

has_cell(s) == s.index < Len(s.cells)

(* an increment that adds to the first cell wherever the cursor is *)
increment_first_cell(s) == [s EXCEPT !.cells[1] = (@ + 1) % ByteMod]

(* *cell += 1 and *cell -= 1 on a u8, when the arithmetic does not trap *)
increment(s) ==
    IF has_cell(s)
    THEN [s EXCEPT !.cells[s.index + 1] = (@ + 1) % ByteMod]
    ELSE s

decrement(s) ==
    IF has_cell(s)
    THEN [s EXCEPT !.cells[s.index + 1] = (@ - 1) % ByteMod]
    ELSE s

(* whether the build traps the u8 arithmetic at this value: with overflow
   checks (the debug and test profiles) 255 + 1 and 0 - 1 panic *)
increment_overflows(s, checks) ==
    checks /\ has_cell(s) /\ s.cells[s.index + 1] = ByteMod - 1

decrement_overflows(s, checks) ==
    checks /\ has_cell(s) /\ s.cells[s.index + 1] = 0

(* State::output prints the cell at the cursor *)
output_byte(s, out) == IF has_cell(s) THEN Append(out, s.cells[s.index + 1]) ELSE out

(* InputStream::next: the next byte of standard input, if any *)
InputStream_has_next(in) == in # <<>>

(* a next that looks at the byte and leaves it in the stream *)
InputStream_rest_peek(in) == in

InputStream_rest(in) == IF in = <<>> THEN in ELSE Tail(in)

(* a State::input that stores 0 when the input has ended *)
input_zero_at_eof(s, in) ==
    IF has_cell(s)
    THEN [s EXCEPT !.cells[s.index + 1] = IF in # <<>> THEN Head(in) ELSE 0]
    ELSE s

(* State::input: the cell takes the next byte; nothing is written at end of input *)
input(s, in) ==
    IF has_cell(s) /\ InputStream_has_next(in)
    THEN [s EXCEPT !.cells[s.index + 1] = Head(in)]
    ELSE s

cond(s) == IF has_cell(s) THEN s.cells[s.index + 1] # 0 ELSE FALSE

----------------------------------------------------------------------------
(* from_brainfuck *)

BfChars == {">", "<", "+", "-", ".", ",", "[", "]"}

CharPair(c) ==
    CASE c = ">" -> SHIFT_RIGHT
      [] c = "<" -> SHIFT_LEFT
      [] c = "+" -> INCREMENT
      [] c = "-" -> DECREMENT
      [] c = "." -> OUTPUT
      [] c = "," -> INPUT
      [] c = "[" -> LOOP_START
      [] c = "]" -> LOOP_END

(* a rendering that joins the formatted pairs with nothing between them *)
JoinSpace_no_separator(pairs) ==
    [j \in 1..(3 * Len(pairs)) |->
        LET k == ((j - 1) \div 3) + 1
            m == (j - 1) % 3
        IN  IF m = 0 THEN pairs[k][1]
            ELSE IF m = 2 THEN pairs[k][2]
            ELSE " "]

(* each pair formatted "{} {}", the results joined with " ": pair k fills
   items 4k-3 .. 4k-1 and a separating space follows every pair but the last *)
JoinSpace(pairs) ==
    [j \in 1..(IF pairs = <<>> THEN 0 ELSE 4 * Len(pairs) - 1) |->
        LET k == ((j - 1) \div 4) + 1
            m == (j - 1) % 4
        IN  IF m = 0 THEN pairs[k][1]
            ELSE IF m = 2 THEN pairs[k][2]
            ELSE " "]

(* a from_brainfuck that passes over the characters outside the eight, as
   Brainfuck comments *)
from_brainfuck_skipping(code) ==
    LET kept == SelectSeq(code, LAMBDA c : c \in BfChars)
    IN  [ok |-> TRUE,
         stream |-> TokenStream_from_str(
                        JoinSpace([i \in 1..Len(kept) |-> CharPair(kept[i])]))]

(* from_brainfuck: the match panics on a character outside the eight;
   otherwise the executor is built from the rendered word-pair text *)
from_brainfuck(code) ==
    IF \A i \in 1..Len(code) : code[i] \in BfChars
    THEN [ok |-> TRUE,
          stream |-> TokenStream_from_str(
                         JoinSpace([i \in 1..Len(code) |-> CharPair(code[i])]))]
    ELSE [ok |-> FALSE, stream |-> <<>>]

----------------------------------------------------------------------------
(* HnyFuck: the executor *)

HnyFuck_new(stream) ==
    [stream |-> stream, body |-> <<>>, state |-> State_new, passes |-> 1, tests |-> 0]

RECURSIVE ScanLoop_keeps_end(_, _, _)
(* a scan that pushes the LOOP_END that brings depth to 0 before it breaks *)
ScanLoop_keeps_end(stream, depth, token_stream) ==
    IF ~next2_some(stream)
    THEN [body |-> token_stream, rest |-> <<>>]
    ELSE LET p == next2_pair(stream)
             r == next2_rest(stream)
         IN  IF p = LOOP_START
             THEN ScanLoop_keeps_end(r, depth + 1, token_stream \o p)
             ELSE IF p = LOOP_END
                  THEN IF depth - 1 = 0
                       THEN [body |-> token_stream \o p, rest |-> r]
                       ELSE ScanLoop_keeps_end(r, depth - 1, token_stream \o p)
                  ELSE ScanLoop_keeps_end(r, depth, token_stream \o p)

RECURSIVE ScanLoop_drops_unterminated(_, _, _)
(* a scan that gives up the collected pairs when next2 yields nothing before
   depth is back at 0 *)
ScanLoop_drops_unterminated(stream, depth, token_stream) ==
    IF ~next2_some(stream)
    THEN [body |-> <<>>, rest |-> <<>>]
    ELSE LET p == next2_pair(stream)
             r == next2_rest(stream)
         IN  IF p = LOOP_START
             THEN ScanLoop_drops_unterminated(r, depth + 1, token_stream \o p)
             ELSE IF p = LOOP_END
                  THEN IF depth - 1 = 0
                       THEN [body |-> token_stream, rest |-> r]
                       ELSE ScanLoop_drops_unterminated(r, depth - 1, token_stream \o p)
                  ELSE ScanLoop_drops_unterminated(r, depth, token_stream \o p)

RECURSIVE ScanLoop(_, _, _)
(* the scan of the LOOP_START arm: collects pairs into token_stream until the
   LOOP_END that brings depth to 0 or until next2 yields nothing *)
ScanLoop(stream, depth, token_stream) ==
    IF ~next2_some(stream)
    THEN [body |-> token_stream, rest |-> <<>>]
    ELSE LET p == next2_pair(stream)
             r == next2_rest(stream)
         IN  IF p = LOOP_START
             THEN ScanLoop(r, depth + 1, token_stream \o p)
             ELSE IF p = LOOP_END
                  THEN IF depth - 1 = 0
                       THEN [body |-> token_stream, rest |-> r]
                       ELSE ScanLoop(r, depth - 1, token_stream \o p)
                  ELSE ScanLoop(r, depth, token_stream \o p)

Top(fs) == fs[Len(fs)]
SetTop(fs, f) == [fs EXCEPT ![Len(fs)] = f]

(* a LOOP_START arm that tests the guard before the first pass, as a
   conventional Brainfuck loop does, and skips the body when the cell is 0 *)
enter_loop_prechecked(fs) ==
    LET self == Top(fs)
        sc == ScanLoop(next2_rest(self.stream), 1, <<>>)
        nest == [stream |-> sc.body, body |-> sc.body, state |-> self.state,
                 passes |-> 1, tests |-> 1]
    IN  IF cond(self.state)
        THEN SetTop(fs, [self EXCEPT !.stream = sc.rest, !.state = State_new])
               \o <<nest>>
        ELSE SetTop(fs, [self EXCEPT !.stream = sc.rest])

(* the LOOP_START arm up to the first nest.run(): the scan, the mem::replace
   that leaves a fresh State in the enclosing executor, and the nested
   executor that takes the tape *)
enter_loop(fs) ==
    LET self == Top(fs)
        sc == ScanLoop(next2_rest(self.stream), 1, <<>>)
        nest == [stream |-> sc.body, body |-> sc.body, state |-> self.state,
                 passes |-> 1, tests |-> 0]
    IN  SetTop(fs, [self EXCEPT !.stream = sc.rest, !.state = State_new])
          \o <<nest>>

(* a repetition that resumes the body after its first pair *)
repeat_loop_skips_first(fs) ==
    SetTop(fs, [Top(fs) EXCEPT !.stream = next2_rest(Top(fs).body),
                               !.passes = @ + 1, !.tests = @ + 1])

(* a repetition that builds one more nested executor for the next pass *)
repeat_loop_nests(fs) ==
    fs \o <<[Top(fs) EXCEPT !.stream = Top(fs).body, !.passes = @ + 1, !.tests = @ + 1]>>

(* nest.stream = token_stream.clone(); the guard holds: the body runs again *)
repeat_loop(fs) ==
    SetTop(fs, [Top(fs) EXCEPT !.stream = Top(fs).body, !.passes = @ + 1, !.tests = @ + 1])

(* a loop end that forgets self.state = nest.state: the enclosing executor
   keeps the fresh State that mem::replace left in it *)
hand_back_dropped(fs) == SubSeq(fs, 1, Len(fs) - 1)

(* self.state = nest.state: the enclosing executor takes the tape back *)
hand_back(fs) ==
    LET n == Len(fs)
    IN  [SubSeq(fs, 1, n - 1) EXCEPT ![n - 1].state = fs[n].state]

(* a guard that tests the State left in the enclosing executor *)
loop_cond_placeholder(fs) == cond(fs[Len(fs) - 1].state)

(* the guard of the do-while: nest.state.cond() *)
loop_cond(fs) == cond(Top(fs).state)

(* a wildcard arm that ignores the pair and goes on with the next one *)
invalid_token_arm_skip(fs) == [pc |-> "running", err |-> "none", frames |-> fs]

(* a wildcard arm that returns from the current run() only: the pass of the
   innermost loop ends and the enclosing executor goes on *)
invalid_token_arm_return(fs) ==
    [pc |-> "running", err |-> "none",
     frames |-> SetTop(fs, [Top(fs) EXCEPT !.stream = <<>>])]

(* the wildcard arm: panic!("Invalid token") unwinds every executor *)
invalid_token_arm(fs) == [pc |-> "panic", err |-> "InvalidToken", frames |-> fs]

----------------------------------------------------------------------------
(* The programs and inputs the model runs *)

SeqsUpTo(S, n) == UNION {[1..k -> S] : k \in 0..n}

Rep(c, n) == [i \in 1..n |-> c]

RECURSIVE Spaced(_)
(* the words of a sequence separated by single spaces *)
Spaced(ws) ==
    IF ws = <<>> THEN <<>>
    ELSE IF Tail(ws) = <<>> THEN <<Head(ws)>>
    ELSE <<Head(ws), " ">> \o Spaced(Tail(ws))

(* Brainfuck sources: every string over the eight characters and three
   others, then the repository's test programs and a few longer ones *)
BfAlphabet == BfChars \cup {" ", "\n", "a"}

(* '+'^a [ > '+'^b < - ] *)
Mul(a, b) == Rep("+", a) \o <<"[", ">">> \o Rep("+", b) \o <<"<", "-", "]">>

MulSources == {Mul(a, b) : a \in 1..MulA, b \in 0..MulB}

(* '+'^a > '+'^b < : test_shift_left_right is a = b = 5 *)
TwoCells(a, b) == Rep("+", a) \o <<">">> \o Rep("+", b) \o <<"<">>

TwoCellsSources ==
    {TwoCells(a, b) : a \in 0..MulA, b \in 0..MulB}
        \cup {TwoCells(ByteMod - 1, ByteMod - 1)}

BfExtra ==
    { Rep("+", 5),
      Rep("+", 5) \o Rep("-", 5),
      Rep("+", 5) \o <<">">> \o Rep("+", 5) \o <<"<">>,
      Rep("+", ByteMod),
      Rep("-", ByteMod),
      <<"+", "+", "[", ">", "+", "+", "[", ">", "+", "<", "-", "]", "<", "-", "]">>,
      <<",", "[", ".", ",", "]">>,
      <<"+", "[", "[", "-", "]", "]", "+">>,
      <<"+", "[", ">", "]", "+">>,
      <<"+", ">", "[", "<", "]", "+">>,
      <<"[", "[", "]", "]", "]", "+">>,
      <<"+", "[", "-", "]", " ", ".">>,
      <<"+", ".", "[", "-", "\n", "]">> }

BfSources == SeqsUpTo(BfAlphabet, MaxSrc) \cup MulSources \cup BfExtra \cup TwoCellsSources

(* word-pair texts: every sequence of at most MaxTokens words from the three
   words of the language and one foreign word, separated by single spaces;
   then texts with other spacing, and longer texts with a foreign pair or a
   dangling word inside loops *)
HnyWords == {"Happy", "New", "Year", "Foo"}

HnyExtra ==
    { <<"Year", "\n", "Happy">>,
      <<" ", "Year", " ", "\t", "Happy", "\n">>,
      <<"Year", "Happy">>,
      <<"Year", " ", "Happy", "New">>,
      Spaced(LOOP_START \o INCREMENT \o <<"Foo">>),
      Spaced(LOOP_START \o INCREMENT \o LOOP_END \o <<"Year">>),
      Spaced(INCREMENT \o OUTPUT \o <<"Foo", "Foo">> \o OUTPUT),
      Spaced(OUTPUT \o LOOP_START \o OUTPUT \o <<"Foo", "Year">> \o LOOP_END \o OUTPUT),
      Spaced(LOOP_START \o LOOP_START \o OUTPUT \o <<"New", "Foo">> \o LOOP_END
               \o OUTPUT \o LOOP_END \o OUTPUT),
      Spaced(LOOP_START \o LOOP_START \o LOOP_END \o LOOP_END \o LOOP_END \o OUTPUT),
      Spaced(INCREMENT \o LOOP_START \o DECREMENT \o LOOP_END \o LOOP_END \o OUTPUT),
      Spaced(INCREMENT \o SHIFT_LEFT \o INPUT \o SHIFT_RIGHT \o INPUT \o OUTPUT) }

HnyTexts == {Spaced(ws) : ws \in SeqsUpTo(HnyWords, MaxTokens)} \cup HnyExtra

InBytes == {0, 7}

Inputs == SeqsUpTo(InBytes, MaxIn)

----------------------------------------------------------------------------
(* The reference interpreter: one tape, a program counter over the opcode
   characters of the program; '[' never skips, ']' jumps back to just after
   its matching '[' when the cell at the cursor is non-zero *)

(* the character of a pair, "?" for a pair outside the eight *)
PairChar(p) ==
    CASE p = <<"New", "Year">> -> ">"
      [] p = <<"Happy", "New">> -> "<"
      [] p = <<"Year", "Happy">> -> "+"
      [] p = <<"Happy", "Year">> -> "-"
      [] p = <<"Year", "New">> -> "."
      [] p = <<"New", "Happy">> -> ","
      [] p = <<"Happy", "Happy">> -> "["
      [] p = <<"New", "New">> -> "]"
      [] OTHER -> "?"

(* the program as opcode characters: a Brainfuck source as it is, a word-pair
   text pair by pair (a dangling last word is no opcode) *)
FlatProgOf(d, text) ==
    IF d = "bf" THEN text
    ELSE LET tokens == TokenStream_from_str(text)
         IN  [k \in 1..(Len(tokens) \div 2) |->
                 PairChar(<<tokens[2 * k - 1], tokens[2 * k]>>)]

Count(prog, c, lo, hi) == Cardinality({i \in lo..hi : prog[i] = c})

(* the '[' that the ']' at j closes *)
FlatMatch(prog, j) ==
    LET opens == {i \in 1..(j - 1) :
                     /\ prog[i] = "["
                     /\ Count(prog, "[", i + 1, j - 1) = Count(prog, "]", i + 1, j - 1)}
    IN  IF opens = {} THEN 0
        ELSE CHOOSE i \in opens : \A k \in opens : k <= i

FlatInit(in) ==
    [pc |-> 1, state |-> State_new, out |-> <<>>, in |-> in, status |-> "running"]

FlatStep(f, prog, checks) ==
    IF f.status # "running" THEN f
    ELSE IF f.pc > Len(prog) THEN [f EXCEPT !.status = "done"]
    ELSE
      LET c == prog[f.pc]
          n == [f EXCEPT !.pc = @ + 1]
      IN  CASE c = "<" -> [n EXCEPT !.state = shift_left(@)]
            [] c = ">" -> [n EXCEPT !.state = shiht_right(@)]
            [] c = "+" -> IF increment_overflows(f.state, checks)
                          THEN [n EXCEPT !.status = "panic"]
                          ELSE [n EXCEPT !.state = increment(@)]
            [] c = "-" -> IF decrement_overflows(f.state, checks)
                          THEN [n EXCEPT !.status = "panic"]
                          ELSE [n EXCEPT !.state = decrement(@)]
            [] c = "." -> [n EXCEPT !.out = Append(@, f.state.cells[f.state.index + 1])]
            [] c = "," -> [n EXCEPT !.state = IF f.in = <<>> THEN @
                                              ELSE [@ EXCEPT !.cells[f.state.index + 1] = Head(f.in)],
                                    !.in = IF @ = <<>> THEN @ ELSE Tail(@)]
            [] c = "[" -> n
            [] c = "]" -> IF f.state.cells[f.state.index + 1] # 0
                          THEN [f EXCEPT !.pc = FlatMatch(prog, f.pc) + 1]
                          ELSE n
            [] OTHER -> [n EXCEPT !.status = "panic"]

(* the history a step of run() keeps: isInput tells an Input dispatch *)
RunHistory(isInput) ==
    /\ stdin0' = stdin0
    /\ reads' = (IF isInput THEN reads + 1 ELSE reads)
    /\ before' = Top(frames).state
    /\ flat' = FlatStep(flat, FlatProgOf(dialect, src), overflow_checks)

----------------------------------------------------------------------------
(* main / the tests: the state before the front end runs *)

Init ==
    /\ dialect \in {"hny", "bf"}
    /\ src \in (IF dialect = "hny" THEN HnyTexts ELSE BfSources)
    /\ overflow_checks \in BOOLEAN
    /\ stdin \in Inputs
    /\ pc = "start"
    /\ err = "none"
    /\ frames = <<>>
    /\ output = <<>>
    /\ last = "none"
    /\ stdin0 = stdin
    /\ reads = 0
    /\ before = State_new
    /\ flat = FlatInit(stdin)

(* HnyFuck::from_str *)
FromStr ==
    /\ pc = "start"
    /\ dialect = "hny"
    /\ frames' = <<HnyFuck_new(TokenStream_from_str(src))>>
    /\ pc' = "running"
    /\ last' = "from_str"
    /\ UNCHANGED <<dialect, src, overflow_checks, err, stdin, output>>
    /\ UNCHANGED <<stdin0, reads, before, flat>>

(* from_brainfuck *)
FromBrainfuck ==
    /\ pc = "start"
    /\ dialect = "bf"
    /\ LET r == from_brainfuck(src)
       IN  IF r.ok
           THEN /\ frames' = <<HnyFuck_new(r.stream)>>
                /\ pc' = "running"
                /\ err' = err
           ELSE /\ frames' = frames
                /\ pc' = "panic"
                /\ err' = "InvalidCharacter"
    /\ last' = "from_brainfuck"
    /\ UNCHANGED <<dialect, src, overflow_checks, stdin, output>>
    /\ UNCHANGED <<stdin0, reads, before, flat>>

(* HnyFuck::run: the executor that runs is the innermost one; it takes the
   next pair of its stream and dispatches on it *)
Dispatching(p) ==
    /\ pc = "running"
    /\ next2_some(Top(frames).stream)
    /\ next2_pair(Top(frames).stream) = p

Advance(f, s) == [f EXCEPT !.stream = next2_rest(@), !.state = s]

ShiftLeft ==
    /\ Dispatching(SHIFT_LEFT)
    /\ Top(frames).state.index = 0 => Len(Top(frames).state.cells) < MaxTape
    /\ frames' = SetTop(frames, Advance(Top(frames), shift_left(Top(frames).state)))
    /\ last' = "ShiftLeft"
    /\ UNCHANGED <<dialect, src, overflow_checks, pc, err, stdin, output>>
    /\ RunHistory(FALSE)

ShiftRight ==
    /\ Dispatching(SHIFT_RIGHT)
    /\ Top(frames).state.index = Len(Top(frames).state.cells) - 1
         => Len(Top(frames).state.cells) < MaxTape
    /\ frames' = SetTop(frames, Advance(Top(frames), shiht_right(Top(frames).state)))
    /\ last' = "ShiftRight"
    /\ UNCHANGED <<dialect, src, overflow_checks, pc, err, stdin, output>>
    /\ RunHistory(FALSE)

Increment ==
    /\ Dispatching(INCREMENT)
    /\ IF increment_overflows(Top(frames).state, overflow_checks)
       THEN /\ pc' = "panic"
            /\ err' = "Overflow"
            /\ frames' = SetTop(frames, Advance(Top(frames), Top(frames).state))
       ELSE /\ pc' = pc
            /\ err' = err
            /\ frames' = SetTop(frames, Advance(Top(frames), increment(Top(frames).state)))
    /\ last' = "Increment"
    /\ UNCHANGED <<dialect, src, overflow_checks, stdin, output>>
    /\ RunHistory(FALSE)

Decrement ==
    /\ Dispatching(DECREMENT)
    /\ IF decrement_overflows(Top(frames).state, overflow_checks)
       THEN /\ pc' = "panic"
            /\ err' = "Overflow"
            /\ frames' = SetTop(frames, Advance(Top(frames), Top(frames).state))
       ELSE /\ pc' = pc
            /\ err' = err
            /\ frames' = SetTop(frames, Advance(Top(frames), decrement(Top(frames).state)))
    /\ last' = "Decrement"
    /\ UNCHANGED <<dialect, src, overflow_checks, stdin, output>>
    /\ RunHistory(FALSE)

Output ==
    /\ Dispatching(OUTPUT)
    /\ Len(output) < MaxOut
    /\ output' = output_byte(Top(frames).state, output)
    /\ frames' = SetTop(frames, Advance(Top(frames), Top(frames).state))
    /\ last' = "Output"
    /\ UNCHANGED <<dialect, src, overflow_checks, pc, err, stdin>>
    /\ RunHistory(FALSE)

Input ==
    /\ Dispatching(INPUT)
    /\ frames' = SetTop(frames, Advance(Top(frames), input(Top(frames).state, stdin)))
    /\ stdin' = InputStream_rest(stdin)
    /\ last' = "Input"
    /\ UNCHANGED <<dialect, src, overflow_checks, pc, err, output>>
    /\ RunHistory(TRUE)

(* the LOOP_START arm, up to the first pass of the body *)
LoopStart ==
    /\ Dispatching(LOOP_START)
    /\ frames' = enter_loop(frames)
    /\ last' = "LoopStart"
    /\ UNCHANGED <<dialect, src, overflow_checks, pc, err, stdin, output>>
    /\ RunHistory(FALSE)

(* any other pair, LOOP_END included *)
InvalidToken ==
    /\ pc = "running"
    /\ next2_some(Top(frames).stream)
    /\ next2_pair(Top(frames).stream) \notin (Pairs \ {LOOP_END})
    /\ LET r == invalid_token_arm(SetTop(frames, Advance(Top(frames), Top(frames).state)))
       IN  /\ pc' = r.pc
           /\ err' = r.err
           /\ frames' = r.frames
    /\ last' = "InvalidToken"
    /\ UNCHANGED <<dialect, src, overflow_checks, stdin, output>>
    /\ RunHistory(FALSE)

(* nest.run() returned (next2 yielded nothing), the guard holds *)
LoopRepeat ==
    /\ pc = "running"
    /\ Len(frames) > 1
    /\ ~next2_some(Top(frames).stream)
    /\ loop_cond(frames)
    /\ Top(frames).passes < MaxPasses
    /\ frames' = repeat_loop(frames)
    /\ last' = "LoopRepeat"
    /\ UNCHANGED <<dialect, src, overflow_checks, pc, err, stdin, output>>
    /\ RunHistory(FALSE)

(* nest.run() returned, the guard fails: the loop ends *)
LoopExit ==
    /\ pc = "running"
    /\ Len(frames) > 1
    /\ ~next2_some(Top(frames).stream)
    /\ ~loop_cond(frames)
    /\ frames' = hand_back(frames)
    /\ last' = "LoopExit"
    /\ UNCHANGED <<dialect, src, overflow_checks, pc, err, stdin, output>>
    /\ RunHistory(FALSE)

(* the outermost run() returns *)
Finish ==
    /\ pc = "running"
    /\ Len(frames) = 1
    /\ ~next2_some(Top(frames).stream)
    /\ frames' = SetTop(frames, [Top(frames) EXCEPT !.stream = <<>>])
    /\ pc' = "done"
    /\ last' = "Finish"
    /\ UNCHANGED <<dialect, src, overflow_checks, err, stdin, output>>
    /\ RunHistory(FALSE)

Next ==
    \/ FromStr
    \/ FromBrainfuck
    \/ ShiftLeft
    \/ ShiftRight
    \/ Increment
    \/ Decrement
    \/ Output
    \/ Input
    \/ LoopStart
    \/ InvalidToken
    \/ LoopRepeat
    \/ LoopExit
    \/ Finish

Spec == Init /\ [][Next]_vars

----------------------------------------------------------------------------
(* What the claims are stated over *)

(* the tape the running executor works on *)
Tape == Top(frames).state
Cell == Tape.cells[Tape.index + 1]

Inc256 == Rep("+", ByteMod)

----------------------------------------------------------------------------
(* C1: Increment and Decrement are arithmetic modulo 256 and never fail: an
   Increment step leaves (v + 1) mod 256 and a Decrement step (v - 1) mod 256
   at the cursor with no error, and 256 Increments from a zero cell complete
   with the cell at 0.  The debug profile panics at 255 + 1 and at 0 - 1. *)
C1_StepWraps ==
    /\ last' = "Increment" =>
         /\ pc' = "running"
         /\ err' = "none"
         /\ Top(frames').state.cells[Tape.index + 1] = (Cell + 1) % 256
    /\ last' = "Decrement" =>
         /\ pc' = "running"
         /\ err' = "none"
         /\ Top(frames').state.cells[Tape.index + 1] = (Cell - 1) % 256

C1_Inc256Completes ==
    (dialect = "bf" /\ src = Inc256) =>
        /\ pc # "panic"
        /\ pc = "done" => Tape.cells = <<0>>

(* C1: every Increment and Decrement step wraps modulo 256 without error,
   and the 256 Increments complete with the cell at 0 *)
C1_ByteArithmeticNeverFails == [][C1_StepWraps]_vars /\ []C1_Inc256Completes

----------------------------------------------------------------------------
(* C2: every executor's tape has at least one cell and a cursor inside it, and
   the tape the running executor works on never gets shorter from one step to
   the next, loop entry and loop exit included. *)
TapeValid(s) == Len(s.cells) >= 1 /\ 0 <= s.index /\ s.index < Len(s.cells)

C2_AllTapesValid == \A i \in 1..Len(frames) : TapeValid(frames[i].state)

C2_NeverShrinks ==
    (frames # <<>> /\ frames' # <<>>) =>
        Len(Top(frames').state.cells) >= Len(Tape.cells)

(* C2: every tape is non-empty with the cursor inside it, and the running
   tape never gets shorter *)
C2_TapeInvariant == []C2_AllTapesValid /\ [][C2_NeverShrinks]_vars

(* a loop that grew the tape to three cells has just handed it back, the
   cursor on the last cell *)
C2_Witness ==
    /\ last = "LoopExit"
    /\ Len(Tape.cells) = 3
    /\ Tape.index = 2

----------------------------------------------------------------------------
(* C3: shift_left at index 0 puts one zero cell in front, the old cells follow
   in order and the cursor is on the new cell; shiht_right at the last index
   appends one zero cell and the cursor is on it; any other shift moves the
   cursor by one and changes no cell. *)
C3_ShiftLeftStep ==
    LET s == Tape
        t == Top(frames').state
    IN  IF s.index = 0
        THEN /\ Len(t.cells) = Len(s.cells) + 1
             /\ t.cells[1] = 0
             /\ \A i \in 1..Len(s.cells) : t.cells[i + 1] = s.cells[i]
             /\ t.index = 0
        ELSE /\ t.cells = s.cells
             /\ t.index = s.index - 1

C3_ShiftRightStep ==
    LET s == Tape
        t == Top(frames').state
    IN  IF s.index = Len(s.cells) - 1
        THEN /\ Len(t.cells) = Len(s.cells) + 1
             /\ t.cells[Len(t.cells)] = 0
             /\ \A i \in 1..Len(s.cells) : t.cells[i] = s.cells[i]
             /\ t.index = Len(s.cells)
        ELSE /\ t.cells = s.cells
             /\ t.index = s.index + 1

(* C3: every ShiftLeft and ShiftRight step grows the tape by one zero cell at
   the boundary, or only moves the cursor elsewhere *)
C3_BoundaryGrowth ==
    [][ /\ last' = "ShiftLeft" => C3_ShiftLeftStep
        /\ last' = "ShiftRight" => C3_ShiftRightStep ]_vars

(* test_state_shift_left: a shift_left at index 0 of a tape whose first cell
   was non-zero *)
C3_Witness ==
    /\ last = "ShiftLeft"
    /\ Tape.index = 0
    /\ Len(Tape.cells) >= 2
    /\ Tape.cells[1] = 0
    /\ Tape.cells[2] # 0

----------------------------------------------------------------------------
(* C4: for a >= 1, b >= 0 with a * b <= 255 the program +^a [ > +^b < - ]
   never panics, has a next step in every state of its run until it is done, ends with cells
   <<0, a * b>> and the cursor at index 0, and its loop ends after exactly a
   passes of the body: at the end of a pass the cell at the cursor is 0 on
   pass a and non-zero on every earlier pass. *)
IsMul(a, b) == dialect = "bf" /\ src = Mul(a, b)

(* a step of HnyFuck::run, at any depth *)
RunStep ==
    \/ ShiftLeft \/ ShiftRight \/ Increment \/ Decrement \/ Output \/ Input
    \/ LoopStart \/ InvalidToken \/ LoopRepeat \/ LoopExit \/ Finish

(* the pass of the body that is running has come to its end *)
PassComplete == Len(frames) > 1 /\ ~next2_some(Top(frames).stream)

----------------------------------------------------------------------------
(* C5: a LoopStart always starts a first pass of the body, whatever the cell
   at the cursor holds, and no guard has been tested before it; a guard test
   happens only when a pass is complete, the k-th test after the k-th pass,
   and it reads the cell at the cursor the pass ended on. *)
C5_LoopStartStep ==
    last' = "LoopStart" =>
        /\ Len(frames') = Len(frames) + 1
        /\ Top(frames').passes = 1
        /\ Top(frames').tests = 0
        /\ Top(frames').state = Tape
        /\ Top(frames').stream = Top(frames').body

C5_GuardStep ==
    last' \in {"LoopRepeat", "LoopExit"} =>
        /\ ~next2_some(Top(frames).stream)
        /\ Top(frames).tests = Top(frames).passes - 1
        /\ (last' = "LoopRepeat") <=> (Cell # 0)

C5_TestsFollowPasses ==
    \A i \in 2..Len(frames) : frames[i].tests = frames[i].passes - 1

(* C5: the first pass of a loop body starts with no guard tested; the k-th
   guard test follows the k-th complete pass, at the current cursor *)
C5_DoWhileEntry ==
    []C5_TestsFollowPasses /\ [][C5_LoopStartStep /\ C5_GuardStep]_vars

(* +>[<]+ : the loop was entered on a zero cell at index 1, its body ran, and
   the guard held on the cell at index 0, where the pass ended *)
C5_Witness ==
    /\ dialect = "bf"
    /\ src = <<"+", ">", "[", "<", "]", "+">>
    /\ last = "LoopRepeat"
    /\ Tape.index = 0
    /\ Tape.cells = <<1, 0>>

----------------------------------------------------------------------------
(* C6: a word-pair program with an odd number of whitespace-separated tokens
   ends in a fatal InvalidToken error, never in a normal completion (the
   arithmetic panic of C1 set aside). *)
OddTokenCount == dialect = "hny" /\ Len(TokenStream_from_str(src)) % 2 = 1

(* C6: a run of a program with an odd token count ends in InvalidToken *)
C6_OddTokenCountIsFatal ==
    (OddTokenCount /\ pc \in {"done", "panic"} /\ err # "Overflow") =>
        (pc = "panic" /\ err = "InvalidToken")

----------------------------------------------------------------------------
(* C7: when the pair an executor takes for dispatch is LoopEnd, the step is a
   fatal InvalidToken error that emits nothing, and no step follows a panic. *)
C7_LoopEndStep ==
    (/\ pc = "running"
     /\ next2_some(Top(frames).stream)
     /\ next2_pair(Top(frames).stream) = <<"New", "New">>) =>
        /\ pc' = "panic"
        /\ err' = "InvalidToken"
        /\ last' = "InvalidToken"
        /\ output' = output

(* C7: a dispatched LoopEnd is a fatal InvalidToken error and no step
   follows a panic *)
C7_DispatchedLoopEndIsFatal == [][C7_LoopEndStep /\ pc # "panic"]_vars

(* +]+ : the LoopEnd at top level has stopped the run, the last Increment is
   still in the stream *)
C7_Witness ==
    /\ dialect = "bf"
    /\ src = <<"+", "]", "+">>
    /\ pc = "panic"
    /\ err = "InvalidToken"
    /\ Tape.cells = <<1>>
    /\ Top(frames).stream = <<"Year", "Happy">>

----------------------------------------------------------------------------
(* C8: when the pair an executor takes for dispatch, at any depth, is none of
   the eight pairs, the step is a fatal InvalidToken error: nothing is
   emitted, no executor is left or resumed, the tape is as it was, and no
   step follows the panic; a program that holds such a pair never completes
   normally. *)
EightPairs ==
    { <<"Happy", "New">>, <<"New", "Year">>, <<"Year", "Happy">>,
      <<"Happy", "Year">>, <<"Year", "New">>, <<"New", "Happy">>,
      <<"Happy", "Happy">>, <<"New", "New">> }

C8_ForeignPairStep ==
    (/\ pc = "running"
     /\ next2_some(Top(frames).stream)
     /\ next2_pair(Top(frames).stream) \notin EightPairs) =>
        /\ pc' = "panic"
        /\ err' = "InvalidToken"
        /\ output' = output
        /\ Len(frames') = Len(frames)
        /\ \A i \in 1..Len(frames) : frames'[i].state = frames[i].state
        /\ \A i \in 1..(Len(frames) - 1) : frames'[i] = frames[i]

C8_NoStepAfterPanic == pc = "panic" => FALSE

(* a program with a foreign pair among its pairs never completes normally:
   the scan of a loop body passes over the pair, the first pass of the body
   then takes it for dispatch *)
C8_NeverCompletes ==
    LET tokens == TokenStream_from_str(src)
    IN  (/\ dialect = "hny"
         /\ \E k \in 1..(Len(tokens) \div 2) :
                <<tokens[2 * k - 1], tokens[2 * k]>> \notin EightPairs) =>
            pc # "done"

(* C8: a dispatched foreign pair stops every executor, and a program that
   holds one never completes normally *)
C8_ForeignPairAbortsRun ==
    []C8_NeverCompletes /\ [][C8_ForeignPairStep /\ C8_NoStepAfterPanic]_vars

(* [ [ . "New Foo" ] . ] . : the foreign pair was met two loops deep after one
   byte of output; both enclosing executors still hold their Output pair *)
C8_Witness ==
    /\ pc = "panic"
    /\ err = "InvalidToken"
    /\ Len(frames) = 3
    /\ output = <<0>>
    /\ frames[1].stream = <<"Year", "New">>
    /\ frames[2].stream = <<"Year", "New">>

----------------------------------------------------------------------------
(* C9: from_brainfuck on a source with a character outside > < + - . , [ ]
   fails with InvalidCharacter before any executor exists: no tape, no
   dispatch, no output. *)
HasForeignChar ==
    \E i \in 1..Len(src) : src[i] \notin {">", "<", "+", "-", ".", ",", "[", "]"}

(* C9: a Brainfuck source with a foreign character fails with
   InvalidCharacter before any executor, tape or output exists *)
C9_InvalidCharacterBeforeRun ==
    (dialect = "bf" /\ HasForeignChar /\ pc # "start") =>
        /\ pc = "panic"
        /\ err = "InvalidCharacter"
        /\ last = "from_brainfuck"
        /\ frames = <<>>
        /\ output = <<>>

(* +.[-\n] : a newline inside a loop, after an Output *)
C9_Witness ==
    /\ dialect = "bf"
    /\ src = <<"+", ".", "[", "-", "\n", "]">>
    /\ pc = "panic"
    /\ err = "InvalidCharacter"
    /\ output = <<>>

----------------------------------------------------------------------------
(* C10: an Input step never fails and changes only the cell at the cursor:
   that cell keeps its value when standard input has ended and takes the next
   byte otherwise; the cursor, the length, the other cells and the output stay,
   and the executor goes on with the pair after the Input. *)
C10_InputStep ==
    last' = "Input" =>
        LET s == Tape
            t == Top(frames').state
        IN  /\ pc' = "running"
            /\ err' = "none"
            /\ Len(frames') = Len(frames)
            /\ t.index = s.index
            /\ Len(t.cells) = Len(s.cells)
            /\ \A i \in 1..Len(s.cells) : i # s.index + 1 => t.cells[i] = s.cells[i]
            /\ t.cells[s.index + 1] = (IF stdin = <<>> THEN Cell ELSE stdin[1])
            /\ Top(frames').stream = SubSeq(Top(frames).stream, 3, Len(Top(frames).stream))
            /\ output' = output

(* C10: every Input step leaves the tape as it is at end of input and
   otherwise writes the next byte to the cell at the cursor only *)
C10_InputAtEndIsNoOp == [][C10_InputStep]_vars

(* +, with no input: the cell still holds the 1 *)
C10_Witness ==
    /\ dialect = "bf"
    /\ src = <<"+", ",">>
    /\ last = "Input"
    /\ stdin = <<>>
    /\ Tape.cells = <<1>>
    /\ pc = "running"

----------------------------------------------------------------------------
(* C11: standard input has one read position for the whole run: after k Input
   dispatches, at any depth and in any iteration, what is left of the input is
   what followed its first k bytes; the k-th Input stores the k-th byte and
   takes at most one byte; no other step, loop entry, repetition and exit
   included, moves the position. *)
C11_ReadPosition ==
    LET k == IF reads <= Len(stdin0) THEN reads ELSE Len(stdin0)
    IN  stdin = SubSeq(stdin0, k + 1, Len(stdin0))

C11_InputStep ==
    last' = "Input" =>
        /\ reads' = reads + 1
        /\ Len(stdin) - Len(stdin') \in {0, 1}
        /\ reads < Len(stdin0) =>
              Top(frames').state.cells[Tape.index + 1] = stdin0[reads + 1]

C11_OtherStep == last' # "Input" => (stdin' = stdin /\ reads' = reads)

(* C11: the read position is the number of Input dispatches, everywhere *)
C11_SharedInputPosition ==
    []C11_ReadPosition /\ [][C11_InputStep /\ C11_OtherStep]_vars

(* ,[.,] on the input 7 0: the second Input, inside the loop, got the 0 *)
C11_Witness ==
    /\ dialect = "bf"
    /\ src = <<",", "[", ".", ",", "]">>
    /\ stdin0 = <<7, 0>>
    /\ reads = 2
    /\ last = "Input"
    /\ Len(frames) = 2
    /\ Tape.cells = <<0>>
    /\ output = <<7>>

----------------------------------------------------------------------------
(* C12: the eight pairs are pairwise distinct, each the pair of exactly one
   opcode, and for a source S over the eight characters the stream that
   from_brainfuck builds, read two tokens at a time and matched against the
   pair table, is the opcode sequence of S character by character: the same
   length, the same order. *)
CharOpcode(c) ==
    CASE c = ">" -> "ShiftRight"
      [] c = "<" -> "ShiftLeft"
      [] c = "+" -> "Increment"
      [] c = "-" -> "Decrement"
      [] c = "." -> "Output"
      [] c = "," -> "Input"
      [] c = "[" -> "LoopStart"
      [] c = "]" -> "LoopEnd"

C12_PairsDistinct ==
    /\ Cardinality(Pairs) = 8
    /\ \A p, q \in Pairs : pair_opcode(p) = pair_opcode(q) => p = q
    /\ \A p \in Pairs : pair_opcode(p) # "Invalid"

(* C12: right after from_brainfuck, the stream is the source pair by pair *)
C12_DialectRoundTrip ==
    /\ C12_PairsDistinct
    /\ (last = "from_brainfuck" /\ pc = "running") =>
          LET st == frames[1].stream
          IN  /\ Len(st) = 2 * Len(src)
              /\ \A k \in 1..Len(src) :
                    pair_opcode(<<st[2 * k - 1], st[2 * k]>>) = CharOpcode(src[k])

(* test_loop's +++++[>+++++<-] has been rendered and read back: 15 pairs *)
C12_Witness ==
    /\ dialect = "bf"
    /\ src = Mul(5, 5)
    /\ last = "from_brainfuck"
    /\ pc = "running"
    /\ Len(frames[1].stream) = 30

----------------------------------------------------------------------------
(* C13: a ShiftLeft followed at once by a ShiftRight, and a ShiftRight
   followed at once by a ShiftLeft, bring the cursor back to the cell it was
   on, with its value, and every cell the tape had is still there in order;
   from a single-cell tape ShiftLeft then ShiftRight leaves exactly 2 cells
   with the cursor on the original one. *)

(* t holds every cell of s, d places further right, the cursor on the same cell *)
SameCellsShifted(s, t, d) ==
    /\ Len(t.cells) >= Len(s.cells) + d
    /\ \A i \in 1..Len(s.cells) : t.cells[i + d] = s.cells[i]
    /\ t.index = s.index + d

C13_LeftThenRight ==
    (last = "ShiftLeft" /\ last' = "ShiftRight") =>
        LET s == before
            t == Top(frames').state
        IN  /\ SameCellsShifted(s, t, IF s.index = 0 THEN 1 ELSE 0)
            /\ Len(s.cells) = 1 => (Len(t.cells) = 2 /\ t.index = 1)

C13_RightThenLeft ==
    (last = "ShiftRight" /\ last' = "ShiftLeft") =>
        SameCellsShifted(before, Top(frames').state, 0)

(* C13: the two round trips, on every pair of consecutive shift steps *)
C13_ShiftRoundTrip == [][C13_LeftThenRight /\ C13_RightThenLeft]_vars

(* +<> : the cursor is back on the cell that holds the 1, now at index 1 of 2 *)
C13_Witness ==
    /\ dialect = "bf"
    /\ src = <<"+", "<", ">">>
    /\ last = "ShiftRight"
    /\ before = [cells |-> <<0, 1>>, index |-> 0]
    /\ Tape = [cells |-> <<0, 1>>, index |-> 1]

----------------------------------------------------------------------------
(* C14: an Increment, Decrement or Input step changes at most the cell at the
   cursor and an Output step changes no cell; all four leave the cursor, the
   length and every other cell as they were; so +^a > +^b < ends with cells
   <<a, b>> and the cursor at index 0. *)
C14_CellStep ==
    last' \in {"Increment", "Decrement", "Input", "Output"} =>
        LET s == Tape
            t == Top(frames').state
        IN  /\ Len(frames') = Len(frames)
            /\ t.index = s.index
            /\ Len(t.cells) = Len(s.cells)
            /\ \A i \in 1..Len(s.cells) : i # s.index + 1 => t.cells[i] = s.cells[i]
            /\ last' = "Output" => t = s

C14_TwoCellsEnd ==
    (pc \in {"done", "panic"} /\ dialect = "bf") =>
        \A a \in (0..MulA) \cup {255}, b \in (0..MulB) \cup {255} :
            src = TwoCells(a, b) =>
                /\ pc = "done"
                /\ Tape = [cells |-> <<a, b>>, index |-> 0]

(* C14: the frame of the four cell operations, and the two-cell program *)
C14_CellIndependence == []C14_TwoCellsEnd /\ [][C14_CellStep]_vars

(* test_shift_left_right: +++++>+++++< has ended with 5 and 5, cursor at 0 *)
C14_Witness ==
    /\ dialect = "bf"
    /\ src = TwoCells(5, 5)
    /\ pc = "done"
    /\ Tape = [cells |-> <<5, 5>>, index |-> 0]

----------------------------------------------------------------------------
(* the pairs of a token sequence, by position; a dangling last token is in
   no pair *)
NPairs(stream) == Len(stream) \div 2
PairAt(stream, k) == <<stream[2 * k - 1], stream[2 * k]>>
PairsUpTo(stream, k) == SubSeq(stream, 1, 2 * k)
PairsAfter(stream, k) == SubSeq(stream, 2 * k + 1, Len(stream))

(* the depth counter after the first k pairs that follow a LoopStart *)
ScanDepth(rest, k) ==
    1 + Cardinality({i \in 1..k : PairAt(rest, i) = LOOP_START})
      - Cardinality({i \in 1..k : PairAt(rest, i) = LOOP_END})

(* the position of the first LoopEnd that brings the depth to 0; 0 if none *)
MatchingLoopEnd(rest) ==
    LET hits == {k \in 1..NPairs(rest) : ScanDepth(rest, k) = 0}
    IN  IF hits = {} THEN 0 ELSE CHOOSE k \in hits : \A j \in hits : k <= j

(* C15: the LoopStart step, when a matching LoopEnd exists, takes out of the
   enclosing stream every pair up to and including that LoopEnd, makes the
   pairs strictly before it the body, and leaves the tape as it was *)
C15_ScanStep ==
    last' = "LoopStart" =>
        LET n == Len(frames)
            rest == next2_rest(Top(frames).stream)
            m == MatchingLoopEnd(rest)
        IN  m > 0 =>
              /\ Len(frames') = n + 1
              /\ frames'[n + 1].body = PairsUpTo(rest, m - 1)
              /\ frames'[n + 1].stream = PairsUpTo(rest, m - 1)
              /\ frames'[n].stream = PairsAfter(rest, m)
              /\ frames'[n + 1].state = Tape
              /\ pc' = pc /\ err' = err /\ output' = output /\ stdin' = stdin

(* C15: while a loop runs and when it ends, the stream the scan left in each
   enclosing executor and the body of each loop stay as they are: the
   enclosing executor resumes with the pair after the matching LoopEnd *)
C15_ResumeStep ==
    /\ \A i \in 1..Len(frames) :
          (i < Len(frames) /\ i <= Len(frames')) =>
              frames'[i].stream = frames[i].stream
    /\ \A i \in 1..Len(frames) :
          i <= Len(frames') => frames'[i].body = frames[i].body
    /\ last' = "LoopExit" => Len(frames') = Len(frames) - 1

(* C15: the loop scan carves out exactly the pairs between a LoopStart and
   its matching LoopEnd, touches no cell, and the enclosing executor resumes
   right after that LoopEnd *)
C15_LoopScan == [][C15_ScanStep /\ C15_ResumeStep]_vars

(* +[[-]]+ : the outer LoopStart has been dispatched; the body is [-] with
   its inner LoopStart and LoopEnd, the enclosing stream is the last + *)
C15_Witness ==
    /\ dialect = "bf"
    /\ src = <<"+", "[", "[", "-", "]", "]", "+">>
    /\ last = "LoopStart"
    /\ Len(frames) = 2
    /\ frames[2].body = LOOP_START \o DECREMENT \o LOOP_END
    /\ frames[1].stream = INCREMENT
    /\ Tape = [cells |-> <<1>>, index |-> 0]

----------------------------------------------------------------------------
NoLoopEndChar == \A i \in 1..Len(src) : src[i] # "]"

(* C16: a LoopStart step whose scan finds no matching LoopEnd raises no
   error, makes every complete pair after the LoopStart the body, leaves the
   enclosing stream empty, and starts the first pass before any guard test *)
C16_ScanStep ==
    last' = "LoopStart" =>
        LET n == Len(frames)
            rest == next2_rest(Top(frames).stream)
        IN  MatchingLoopEnd(rest) = 0 =>
              /\ pc' = "running" /\ err' = "none"
              /\ Len(frames') = n + 1
              /\ frames'[n + 1].body = PairsUpTo(rest, NPairs(rest))
              /\ frames'[n + 1].stream = frames'[n + 1].body
              /\ frames'[n + 1].tests = 0
              /\ frames'[n + 1].passes = 1
              /\ frames'[n + 1].state = Tape
              /\ frames'[n].stream = <<>>

(* C16: a program of the eight characters without ']' never meets an invalid
   token, and when its run has ended no executor has a pair left *)
C16_EndsNormally ==
    (dialect = "bf" /\ pc \in {"done", "panic"} /\ NoLoopEndChar) =>
        /\ err # "InvalidToken"
        /\ pc = "done" => (Len(frames) = 1 /\ frames[1].stream = <<>>)

(* C16: an unterminated loop is no error: its body is what the scan
   collected, run as a do-while, and the enclosing executor ends normally *)
C16_UnterminatedLoop == []C16_EndsNormally /\ [][C16_ScanStep]_vars

(* +[- : the run has ended normally after one pass of the unterminated body *)
C16_Witness ==
    /\ dialect = "bf"
    /\ src = <<"+", "[", "-">>
    /\ pc = "done"
    /\ err = "none"
    /\ last = "Finish"
    /\ Tape = [cells |-> <<0>>, index |-> 0]

----------------------------------------------------------------------------
(* C17: every enclosing executor holds the fresh State that mem::replace left
   in it, untouched, for as long as its loop runs *)
C17_PlaceholdersFresh ==
    \A i \in 1..Len(frames) : i < Len(frames) => frames[i].state = State_new

(* C17: a LoopStart hands the tape to the nested executor as it is; an opcode
   acts on the innermost executor's tape only; a guard test reads that tape;
   a LoopExit gives the enclosing executor the tape exactly as the nested
   executor left it *)
C17_HandOffStep ==
    LET n == Len(frames)
    IN  /\ last' = "LoopStart" =>
              /\ frames'[n + 1].state = Tape
              /\ frames'[n].state = State_new
        /\ last' \in {"ShiftLeft", "ShiftRight", "Increment", "Decrement",
                      "Input", "Output", "InvalidToken", "LoopRepeat"} =>
              /\ Len(frames') = n
              /\ \A i \in 1..(n - 1) : frames'[i].state = frames[i].state
        /\ last' = "Output" => output' = Append(output, Cell)
        /\ last' = "LoopRepeat" => (Cell # 0 /\ Top(frames').state = Tape)
        /\ last' = "LoopExit" =>
              /\ Cell = 0
              /\ Len(frames') = n - 1
              /\ Top(frames').state = Tape
              /\ \A i \in 1..(n - 2) : frames'[i].state = frames[i].state

(* C17: one real tape, owned by the innermost executor and handed back whole *)
C17_TapeHandOff == []C17_PlaceholdersFresh /\ [][C17_HandOffStep]_vars

(* an inner loop has ended inside an outer one: the outer loop's executor has
   the tape back with the cells written so far, the outermost executor still
   holds its placeholder *)
C17_Witness ==
    /\ last = "LoopExit"
    /\ Len(frames) = 2
    /\ frames[1].state = State_new
    /\ Len(Tape.cells) >= 2
    /\ \E i \in 1..Len(Tape.cells) : Tape.cells[i] # 0

----------------------------------------------------------------------------
(* the token stream the front end builds from the program text *)
ProgramTokens ==
    IF dialect = "bf" THEN from_brainfuck(src).stream ELSE TokenStream_from_str(src)

(* the maximum LoopStart nesting depth of a program text: the largest excess
   of LoopStart over LoopEnd pairs in any prefix *)
NestingDepth(prog) ==
    LET ds == {ScanDepth(prog, k) - 1 : k \in 0..NPairs(prog)}
    IN  CHOOSE d \in ds : \A e \in ds : e <= d

(* C18: the live executors are never more than 1 + the nesting depth *)
C18_DepthBound ==
    Len(frames) > 1 => Len(frames) <= 1 + NestingDepth(ProgramTokens)

(* C18: only a LoopStart adds an executor, one at a time; a repetition keeps
   the executors it found, the nested one included, whatever the pass *)
C18_RepeatStep ==
    /\ Len(frames') > Len(frames) =>
          (last' \in {"LoopStart", "from_str", "from_brainfuck"}
             /\ Len(frames') = Len(frames) + 1)
    /\ last' = "LoopRepeat" =>
          /\ Len(frames') = Len(frames)
          /\ \A i \in 1..(Len(frames) - 1) : frames'[i] = frames[i]
          /\ Top(frames').body = Top(frames).body
          /\ Top(frames').state = Top(frames).state

(* C18: executor nesting is bounded by the nesting of the text, not by the
   number of iterations *)
C18_BoundedNesting == []C18_DepthBound /\ [][C18_RepeatStep]_vars

(* a loop nested in a loop is in its second pass or later: three executors,
   the bound for a text of nesting depth 2 *)
C18_Witness ==
    /\ pc = "running"
    /\ Len(frames) = 3
    /\ Top(frames).passes >= 2
    /\ frames[2].passes >= 2
    /\ NestingDepth(ProgramTokens) = 2

----------------------------------------------------------------------------
(* a program of recognized pairs with no LoopStart and no LoopEnd: the six
   other characters in the Brainfuck dialect, an even number of words that
   pair up into the six other opcodes in the word-pair dialect *)
LoopFreeProgram ==
    IF dialect = "bf"
    THEN \A i \in 1..Len(src) : src[i] \in {">", "<", "+", "-", ".", ","}
    ELSE LET prog == TokenStream_from_str(src)
         IN  /\ Len(prog) % 2 = 0
             /\ \A k \in 1..NPairs(prog) :
                   PairAt(prog, k) \in (Pairs \ {LOOP_START, LOOP_END})

(* C19: a program of recognized pairs without LoopStart and LoopEnd never
   aborts, for any input, and has ended only when every pair has been
   dispatched by the one executor.  A debug build aborts at 0 - 1 and at
   255 + 1, before the pairs that follow. *)
C19_LoopFreeRunCompletes ==
    (pc \in {"running", "done", "panic"} /\ LoopFreeProgram) =>
        /\ pc # "panic"
        /\ err = "none"
        /\ Len(frames) = 1
        /\ pc = "done" => Top(frames).stream = <<>>

----------------------------------------------------------------------------
IsBracket(c) == c \in {"[", "]"}

(* every ']' closes an earlier '[' and every '[' is closed *)
Balanced(prog) ==
    LET b == SelectSeq(prog, IsBracket)
    IN  /\ Count(b, "[", 1, Len(b)) = Count(b, "]", 1, Len(b))
        /\ \A k \in 1..Len(b) : Count(b, "[", 1, k) >= Count(b, "]", 1, k)

(* a bracket-balanced program over the eight opcodes, in either dialect *)
BalancedProgram ==
    LET prog == FlatProgOf(dialect, src)
    IN  /\ dialect = "hny" => Len(TokenStream_from_str(src)) % 2 = 0
        /\ \A i \in 1..Len(prog) : prog[i] \in BfChars
        /\ Balanced(prog)

(* C20: on a bracket-balanced program over the eight opcodes the executors
   and the program-counter interpreter move in lock step: same tape and
   cursor, same output, same input left (so the same number of bytes
   consumed), the same opcode next, and they end, or abort, together *)
C20_LockStep ==
    (pc \in {"running", "done", "panic"} /\ BalancedProgram) =>
        LET prog == FlatProgOf(dialect, src)
            self == Top(frames)
        IN  /\ flat.state = self.state
            /\ flat.out = output
            /\ flat.in = stdin
            /\ Len(stdin0) - Len(flat.in) = Len(stdin0) - Len(stdin)
            /\ (pc = "done") <=> (flat.status = "done")
            /\ (pc = "panic") <=> (flat.status = "panic")
            /\ pc = "running" =>
                  IF next2_some(self.stream)
                  THEN /\ flat.pc <= Len(prog)
                       /\ prog[flat.pc] = PairChar(next2_pair(self.stream))
                  ELSE IF Len(frames) > 1
                       THEN flat.pc <= Len(prog) /\ prog[flat.pc] = "]"
                       ELSE flat.pc = Len(prog) + 1

(* C20: every pass of a loop starts with the whole body, where the jump of
   the interpreter lands: just after the matching '[' *)
C20_RepeatStep ==
    (last' = "LoopRepeat" /\ BalancedProgram) =>
        /\ Top(frames').stream = Top(frames).body
        /\ flat'.pc = FlatMatch(FlatProgOf(dialect, src), flat.pc) + 1

(* C20: the recursive executor and the flat interpreter agree *)
C20_FlatEquivalence == []C20_LockStep /\ [][C20_RepeatStep]_vars

(* ++[>++[>+<-]<-] has ended in both: cells 0, 0, 4 and the cursor at 0 *)
C20_Witness ==
    /\ dialect = "bf"
    /\ src = <<"+", "+", "[", ">", "+", "+", "[", ">", "+", "<", "-", "]", "<", "-", "]">>
    /\ pc = "done"
    /\ flat.status = "done"
    /\ flat.state = [cells |-> <<0, 0, 4>>, index |-> 0]
    /\ Tape = flat.state

====
